---- MODULE Spec2Model ----
(***************************************************************************)
(* StriSeC: a TCP service answering whether a query string is a complete   *)
(* line of a corpus file.  The module models                               *)
(*   - the search strategies of src/src/search/search_algorithms.py as     *)
(*     operators on byte/character sequences,                              *)
(*   - handle_client and main of src/src/server.py and the acceptor of     *)
(*     src/src/threads.py as processes stepping through their code,        *)
(*   - the corpus file on disk and the process-wide linecache,             *)
(*   - query_server of src/client.py,                                      *)
(*   - create_ssl_context of src/src/ssl_utils.py.                         *)
(*                                                                         *)
(* Bytes and characters are named by strings: "a", "b", "c" are ordinary   *)
(* letters, "[" is the bracket (special in a regular expression), "NUL",   *)
(* "CR", "LF" are the control bytes the code strips, "BAD" is a byte that  *)
(* is not valid UTF-8 (such as 0xFF), and "e_acute" is a character whose   *)
(* UTF-8 encoding is the two bytes "xC3" "xA9".                            *)
(***************************************************************************)
EXTENDS Integers, Sequences, FiniteSets, TLC

VARIABLES
    file,       \* the corpus file at cfg["LINUXPATH"]: [exists, bytes]
    lc,         \* linecache.cache entry of that path: [cached, lines]
    cfg,        \* the configuration record handed to main / handle_client
    mainPc,     \* position of main (and of the acceptor loop it ends in)
    mainCache,  \* main's local variable lines_cache: [loaded, lines]
    handlers,   \* per connection: the state of its handle_client invocation
    edits,      \* number of external modifications of the corpus file so far
    sq,         \* search harness: the query given to the strategies
    sres,       \* search harness: result of each strategy applied so far
    acc,        \* the acceptor: connection in TLS handshake, failed handshakes,
                \* and the startup step of main that failed
    client,     \* one invocation of the client's query_server
    ctx         \* main's local variable ssl_ctx: what create_ssl_context gave

vars == <<file, lc, cfg, mainPc, mainCache, handlers, edits, sq, sres, acc, client, ctx>>

-----------------------------------------------------------------------------
(* Bounds of the model *)

MaxConns == 2       \* connections accepted by the server in one run
MaxEdits == 1       \* external modifications of the corpus file
MaxFileLen == 3     \* bytes of a corpus file in the search harness
MaxQueryLen == 2    \* characters of a query in the search harness
MaxPayloadLen == 3  \* bytes of a payload in the unit harness

Range(s) == {s[i] : i \in 1..Len(s)}

SeqsUpTo(S, n) == UNION {[1..k -> S] : k \in 0..n}

-----------------------------------------------------------------------------
(* Byte strings and text *)

\* bytes.rstrip(chars) / str.rstrip(chars): drop every trailing element in chars
RECURSIVE rstrip(_, _)
rstrip(s, chars) ==
    IF s # <<>> /\ s[Len(s)] \in chars
    THEN rstrip(SubSeq(s, 1, Len(s) - 1), chars)
    ELSE s

\* a variant of the decoding that keeps a mark for every invalid byte
\* (errors="replace")
decode_replace(bs) == bs

\* bytes.decode("utf-8", errors="ignore"): the two bytes "xC3" "xA9" are the
\* character "e_acute"; every byte that is part of no valid sequence ("BAD",
\* a lead byte "xC3" without its continuation, a stray continuation "xA9")
\* is dropped; every other byte is the ASCII character of the same name
RECURSIVE decode_ignore(_)
decode_ignore(bs) ==
    IF bs = <<>> THEN <<>>
    ELSE IF bs[1] = "xC3" /\ Len(bs) >= 2 /\ bs[2] = "xA9"
         THEN <<"e_acute">> \o decode_ignore(SubSeq(bs, 3, Len(bs)))
         ELSE IF bs[1] \in {"BAD", "xC3", "xA9"}
              THEN decode_ignore(Tail(bs))
              ELSE <<bs[1]>> \o decode_ignore(Tail(bs))

\* text-mode reading with newline=None: "\r\n" and "\r" become "\n"
RECURSIVE universal_newlines(_)
universal_newlines(t) ==
    IF t = <<>> THEN <<>>
    ELSE IF t[1] = "CR"
         THEN IF Len(t) >= 2 /\ t[2] = "LF"
              THEN <<"LF">> \o universal_newlines(SubSeq(t, 3, Len(t)))
              ELSE <<"LF">> \o universal_newlines(Tail(t))
         ELSE <<t[1]>> \o universal_newlines(Tail(t))

FirstLF(t) ==
    IF \E i \in 1..Len(t) : t[i] = "LF"
    THEN CHOOSE i \in 1..Len(t) : t[i] = "LF" /\ \A j \in 1..(i - 1) : t[j] # "LF"
    ELSE 0

\* iterating a text file / readlines(): the lines, each with its terminator
RECURSIVE iter_lines(_)
iter_lines(t) ==
    IF t = <<>> THEN <<>>
    ELSE LET i == FirstLF(t)
         IN IF i = 0 THEN <<t>>
            ELSE <<SubSeq(t, 1, i)>> \o iter_lines(SubSeq(t, i + 1, Len(t)))

\* p.open('r', encoding='utf-8', errors='ignore') followed by iteration
open_lines(bs) == iter_lines(universal_newlines(decode_ignore(bs)))

-----------------------------------------------------------------------------
(* The corpus file and the search strategies *)

NoFile == [exists |-> FALSE, bytes |-> <<>>]
File(bs) == [exists |-> TRUE, bytes |-> bs]

None == [loaded |-> FALSE, lines |-> {}]
Loaded(S) == [loaded |-> TRUE, lines |-> S]

NoEntry == [cached |-> FALSE, lines |-> <<>>]
Entry(ls) == [cached |-> TRUE, lines |-> ls]

\* load_lines raises FileNotFoundError unless the path is a regular file
load_lines_raises(f) == ~f.exists

\* a variant of load_lines that keeps each line's terminator
load_lines_keepends(f) == {open_lines(f.bytes)[i] : i \in 1..Len(open_lines(f.bytes))}

\* load_lines: {line.rstrip('\n') for line in f}
load_lines(f) == {rstrip(open_lines(f.bytes)[i], {"LF"}) : i \in 1..Len(open_lines(f.bytes))}

\* a variant of search_cached matching a query that only begins a line
search_cached_prefix(lines, query) ==
    \E l \in lines : Len(query) <= Len(l) /\ SubSeq(l, 1, Len(query)) = query

\* search_cached: query in lines
search_cached(lines, query) == query \in lines

\* search_dynamic: first line with line.rstrip('\n') == query
search_dynamic(f, query) ==
    \E i \in 1..Len(open_lines(f.bytes)) : rstrip(open_lines(f.bytes)[i], {"LF"}) = query

\* linecache.updatecache: the lines read, or <<>> when the file cannot be
\* stat'ed or decoded (strict UTF-8); a final line gets its "\n"
updatecache_lines(f) ==
    IF ~f.exists \/ "BAD" \in Range(f.bytes) THEN <<>>
    ELSE LET ls == iter_lines(universal_newlines(f.bytes))
         IN IF ls # <<>> /\ ls[Len(ls)][Len(ls[Len(ls)])] # "LF"
            THEN [ls EXCEPT ![Len(ls)] = @ \o <<"LF">>]
            ELSE ls

\* linecache.updatecache stores an entry only when the read succeeded
updatecache_entry(f) ==
    IF ~f.exists \/ "BAD" \in Range(f.bytes) THEN NoEntry
    ELSE Entry(updatecache_lines(f))

\* a variant of the cache update that stores an entry without lines
getlines_entry_empty(entry, f) == Entry(<<>>)

\* linecache.getlines: the cached lines when there is an entry, else a read
getlines(entry, f) == IF entry.cached THEN entry.lines ELSE updatecache_lines(f)

\* the cache entry after linecache.getlines
getlines_entry(entry, f) == IF entry.cached THEN entry ELSE updatecache_entry(f)

\* a variant of search_linecache without the check that the path exists
search_linecache_never_raises(f) == FALSE

\* search_linecache raises ValueError unless the path exists
search_linecache_raises(f) == ~f.exists

\* linecache.getline(path, n): line n of the cached lines, '' when there is
\* no such line
getline(lines, n) == IF n \in 1..Len(lines) THEN lines[n] ELSE <<>>

\* a variant of the end-of-file test that looks at the stripped line
scan_eof_on_blank(raw_line) == rstrip(raw_line, {"CR", "LF"}) = <<>>

\* `if not raw_line: break`
scan_eof(raw_line) == raw_line = <<>>

\* search_linecache's loop: lines 1.. until getline returns '' or a line,
\* stripped of trailing "\r\n", equals the query stripped the same way
search_linecache(entry, f, query) ==
    \E i \in 1..Len(getlines(entry, f)) :
        rstrip(getlines(entry, f)[i], {"CR", "LF"}) = rstrip(query, {"CR", "LF"})

\* a variant of the encoding that drops every non-ASCII character
\* (encode('ascii', errors='ignore'))
encode_ascii(t) == SelectSeq(t, LAMBDA ch : ch # "e_acute")

\* str.encode('utf-8'): "e_acute" becomes the two bytes "xC3" "xA9", every
\* other character the model uses is ASCII and becomes the one byte of the
\* same name (no character encodes to "BAD")
RECURSIVE encode(_)
encode(t) ==
    IF t = <<>> THEN <<>>
    ELSE (IF t[1] = "e_acute" THEN <<"xC3", "xA9">> ELSE <<t[1]>>) \o encode(Tail(t))

\* mm.find(p) != -1: p occurs in s as a contiguous run of bytes
find(s, p) == \E i \in 1..(Len(s) - Len(p) + 1) : SubSeq(s, i, i + Len(p) - 1) = p

\* search_mmap raises ValueError when the file is missing and RuntimeError
\* when it is empty (mmap refuses to map an empty file)
search_mmap_raises(f) == ~f.exists \/ f.bytes = <<>>

\* search_mmap: mm.find(query.encode('utf-8')) != -1
search_mmap(f, query) == find(f.bytes, encode(query))

\* a variant that builds the pattern from the query without re.escape: an
\* unclosed "[" makes a pattern that matches no line
pattern_match_unescaped(query, s) ==
    "[" \notin Range(query) /\ (s = query \/ s = query \o <<"LF">>)

\* re.compile('^' + re.escape(query) + '$').match(s): the query taken
\* literally; `$` also matches just before a final newline
pattern_match(query, s) == s = query \/ s = query \o <<"LF">>

\* search_regex raises ValueError when the file is missing or is not valid
\* UTF-8 (it opens the file without errors='ignore')
search_regex_raises(f) == ~f.exists \/ "BAD" \in Range(f.bytes)

\* search_regex: some line, stripped of '\n', matches the pattern
search_regex(f, query) ==
    LET ls == iter_lines(universal_newlines(f.bytes))
    IN \E i \in 1..Len(ls) : pattern_match(query, rstrip(ls[i], {"LF"}))

\* the pieces of s between its "LF" elements (the last may be empty)
RECURSIVE split_lf(_)
split_lf(s) ==
    LET i == FirstLF(s)
    IN IF i = 0 THEN <<s>>
       ELSE <<SubSeq(s, 1, i - 1)>> \o split_lf(SubSeq(s, i + 1, Len(s)))

\* the lines grep reads: split at "\n" only, no decoding, a final line
\* without terminator included
grep_lines(bs) ==
    LET ps == split_lf(bs)
    IN IF ps[Len(ps)] = <<>> THEN SubSeq(ps, 1, Len(ps) - 1) ELSE ps

\* grep's exit status for `grep query path`: the argument is a list of basic
\* regular expressions separated by newlines; of the characters the model
\* uses only "[" is special, and without a closing bracket it makes the
\* pattern invalid (status 2); status 0 when some line contains some pattern
grep_status(bs, query) ==
    IF "[" \in Range(query) THEN 2
    ELSE IF \E i \in 1..Len(grep_lines(bs)), j \in 1..Len(split_lf(query)) :
                find(grep_lines(bs)[i], encode(split_lf(query)[j]))
         THEN 0
         ELSE 1

\* search_grep raises ValueError unless the path exists
search_grep_raises(f) == ~f.exists

\* search_grep: True when check_output returns, False on CalledProcessError
\* (any non-zero exit status)
search_grep(f, query) == grep_status(f.bytes, query) = 0

\* subprocess.check_output(['grep', query, path]): ValueError for an argument
\* with an embedded NUL, FileNotFoundError when no grep executable is found,
\* CalledProcessError for a non-zero exit status, else the output is returned
check_output(installed, bs, query) ==
    IF "NUL" \in Range(query) THEN "ValueError"
    ELSE IF ~installed THEN "FileNotFoundError"
    ELSE IF grep_status(bs, query) = 0 THEN "returns"
    ELSE "CalledProcessError"

\* a variant of search_grep that reports every failure of the call as False
search_grep_outcome_swallow(installed, f, query) ==
    IF search_grep_raises(f) THEN "ValueError"
    ELSE IF check_output(installed, f.bytes, query) = "returns" THEN "True"
    ELSE "False"

\* search_grep as a whole: ValueError for a missing file, True when
\* check_output returns, False on CalledProcessError, RuntimeError for
\* FileNotFoundError and for any other exception of the call
search_grep_outcome(installed, f, query) ==
    IF search_grep_raises(f) THEN "ValueError"
    ELSE CASE check_output(installed, f.bytes, query) = "returns" -> "True"
           [] check_output(installed, f.bytes, query) = "CalledProcessError" -> "False"
           [] OTHER -> "RuntimeError"

\* the results of the strategies in the search harness, none applied yet
NoResults ==
    [cached |-> "none", dynamic |-> "none", linecache |-> "none",
     regex |-> "none", mmap |-> "none", grep |-> "none"]

-----------------------------------------------------------------------------
(* Configuration *)

\* a value of cfg["REREAD_ON_QUERY"]: absent, a bool, or a string
Absent == [kind |-> "absent", b |-> FALSE, s |-> ""]
Bool(b) == [kind |-> "bool", b |-> b, s |-> ""]
Str(s) == [kind |-> "str", b |-> FALSE, s |-> s]

\* str.lower() on the strings the model uses
lower(s) ==
    CASE s \in {"True", "TRUE", "tRuE"} -> "true"
      [] s \in {"False", "FALSE"} -> "false"
      [] s \in {"ON", "On"} -> "on"
      [] s \in {"YES", "Yes"} -> "yes"
      [] s \in {"NO", "No"} -> "no"
      [] s = "OFF" -> "off"
      [] OTHER -> s

\* a variant of the mode choice that takes the value's plain truthiness
reread_flag_truthy(c) ==
    CASE c.REREAD_ON_QUERY.kind = "absent" -> FALSE
      [] c.REREAD_ON_QUERY.kind = "str" -> c.REREAD_ON_QUERY.s # ""
      [] OTHER -> c.REREAD_ON_QUERY.b

\* handle_client's reread_flag: cfg.get(..., False), strings normalised
reread_flag(c) ==
    CASE c.REREAD_ON_QUERY.kind = "absent" -> FALSE
      [] c.REREAD_ON_QUERY.kind = "str" ->
            lower(c.REREAD_ON_QUERY.s) \in {"1", "true", "yes", "on"}
      [] OTHER -> c.REREAD_ON_QUERY.b

\* main's test `not cfg.get("REREAD_ON_QUERY", False)`: plain truthiness
main_static(c) ==
    CASE c.REREAD_ON_QUERY.kind = "absent" -> TRUE
      [] c.REREAD_ON_QUERY.kind = "str" -> c.REREAD_ON_QUERY.s = ""
      [] OTHER -> ~c.REREAD_ON_QUERY.b

-----------------------------------------------------------------------------
(* create_ssl_context (ssl_utils.py) *)

\* ssl_ctx before create_ssl_context is called
Unset == [kind |-> "unset", verify_mode |-> "none"]

\* the outcomes of create_ssl_context: None, an exception, an SSLContext
NoContext == [kind |-> "None", verify_mode |-> "none"]
Raises == [kind |-> "raises", verify_mode |-> "none"]
Context(mode) == [kind |-> "context", verify_mode |-> mode]

\* Python truthiness of a configuration value: None and "" are false
truthy(v) ==
    CASE v.kind = "absent" -> FALSE
      [] v.kind = "str" -> v.s # ""
      [] OTHER -> v.b

\* the files of the model: "server.pem" holds a certificate and its key and
\* "ca.pem" a certificate; any other path names no loadable file
cert_loadable(certfile, keyfile) == certfile = Str("server.pem") /\ keyfile = Str("server.pem")
ca_loadable(cafile) == cafile \in {Str("server.pem"), Str("ca.pem")}

\* a variant that returns None only when both paths are missing
create_ssl_context_both(certfile, keyfile, verify_client, cafile) ==
    IF ~truthy(certfile) /\ ~truthy(keyfile) THEN NoContext
    ELSE IF truthy(cafile) /\ ~ca_loadable(cafile) THEN Raises
    ELSE IF ~cert_loadable(certfile, keyfile) THEN Raises
    ELSE Context(IF truthy(verify_client) THEN "CERT_REQUIRED" ELSE "CERT_NONE")

\* create_ssl_context: None when certfile or keyfile is falsy; otherwise
\* create_default_context(CLIENT_AUTH, cafile=cafile) (which loads cafile when
\* it is given), load_cert_chain and load_verify_locations(certfile), each of
\* which raises on a file it cannot load; then verify_mode from the flag
create_ssl_context(certfile, keyfile, verify_client, cafile) ==
    IF ~truthy(certfile) \/ ~truthy(keyfile) THEN NoContext
    ELSE IF truthy(cafile) /\ ~ca_loadable(cafile) THEN Raises
    ELSE IF ~cert_loadable(certfile, keyfile) THEN Raises
    ELSE Context(IF truthy(verify_client) THEN "CERT_REQUIRED" ELSE "CERT_NONE")

-----------------------------------------------------------------------------
(* handle_client *)

EXISTS == "STRING EXISTS\n"
NOT_FOUND == "STRING NOT FOUND\n"

\* a call made on the connection object; ok: it returned without raising
Call(op, data, ok) == [op |-> op, data |-> data, ok |-> ok]

\* the state of one invocation before it starts
Idle ==
    [pc |-> "idle", via |-> "none", ssl |-> FALSE, lines_cache |-> None,
     raw |-> <<>>, query |-> <<>>, reread |-> FALSE, found |-> FALSE,
     ops |-> <<>>, errors |-> 0, debugs |-> 0, reads |-> 0, searches |-> 0,
     supplied |-> FALSE,
     raised |-> "none", propagated |-> FALSE, onDisk |-> FALSE]

\* a variant of the query's clean-up that keeps the trailing bytes
strip_and_decode_unstripped(raw) == decode_ignore(raw)

\* raw.rstrip(b"\x00\r\n").decode("utf-8", errors="ignore")
strip_and_decode(raw) == decode_ignore(rstrip(raw, {"NUL", "CR", "LF"}))

\* a variant of the empty-read test that never returns early
empty_read_never(raw) == FALSE

\* `if not raw: return`
empty_read(raw) == raw = <<>>

\* a variant of the response choice that leaves out the newline
response_no_newline(found) == IF found THEN "STRING EXISTS" ELSE "STRING NOT FOUND"

\* the response bytes chosen from the search result
Response(found) == IF found THEN EXISTS ELSE NOT_FOUND

\* a variant in which the handler goes back to the send after a send
finally_pc_retry(h) ==
    IF h.ops # <<>> /\ h.ops[Len(h.ops)].op = "sendall" THEN "respond" ELSE "finally"

\* leaving the try block, by return, fall-through or a caught exception
finally_pc(h) == "finally"

\* a variant without the except clause: the exception leaves handle_client
on_exception_uncaught(h, step) ==
    [h EXCEPT !.raised = step, !.propagated = TRUE, !.pc = finally_pc(h)]

\* `except Exception as e: logger.error(...)`, then the finally clause
on_exception(h, step) ==
    [h EXCEPT !.errors = @ + 1, !.raised = step, !.pc = finally_pc(h)]

\* a variant of the lazy preload's handler that re-raises without logging
on_preload_failure_silent(h) == on_exception(h, "load")

\* the lazy preload's own handler: logger.error(...) and re-raise
on_preload_failure(h) == on_exception([h EXCEPT !.errors = @ + 1], "load")

\* a variant that attempts the TLS shutdown on every connection
unwrap_step_always(h, ok) ==
    [h EXCEPT !.ops = Append(@, Call("unwrap", "", ok)),
              !.debugs = IF ok THEN @ ELSE @ + 1]

\* `if ssl_conn: try: conn.unwrap() except Exception: logger.debug(...)`:
\* unwrap is called on an ssl.SSLSocket only, and its failure is logged
unwrap_step(h, ok) ==
    IF h.ssl
    THEN [h EXCEPT !.ops = Append(@, Call("unwrap", "", ok)),
                   !.debugs = IF ok THEN @ ELSE @ + 1]
    ELSE h

\* a variant that closes the connection a second time
close_step_twice(h, ok) ==
    [h EXCEPT !.ops = @ \o <<Call("close", "", TRUE), Call("close", "", TRUE)>>, !.pc = "done"]

\* `try: conn.close() except Exception: pass`: whatever close does, the
\* handler returns normally
close_step(h, ok) == [h EXCEPT !.ops = Append(@, Call("close", "", TRUE)), !.pc = "done"]

\* whether the query is a line of the file as it is on disk now (recorded
\* when a handler reads the corpus, to compare its answer with)
on_disk(f, query) == f.exists /\ search_dynamic(f, query)

\* handle_client(conn, addr, cfg, logger, lines_cache) is entered
Enter(c, via, ssl, cache) ==
    /\ handlers[c].pc = "idle"
    /\ handlers' = [handlers EXCEPT ![c] =
            [@ EXCEPT !.pc = "recv", !.via = via, !.ssl = ssl, !.lines_cache = cache,
                      !.supplied = cache.loaded]]

\* conn.recv(cfg["MAX_PAYLOAD_SIZE"]) returns raw, or raises
HandlerRecv(c, raw, ok) ==
    /\ handlers[c].pc = "recv"
    /\ LET h == [handlers[c] EXCEPT !.ops = Append(@, Call("recv", "", ok))]
       IN handlers' = [handlers EXCEPT ![c] =
            IF ~ok THEN on_exception(h, "recv")
            ELSE IF empty_read(raw) THEN [h EXCEPT !.pc = finally_pc(h)]
            ELSE [h EXCEPT !.raw = raw, !.query = strip_and_decode(raw),
                           !.reread = reread_flag(cfg), !.pc = "search"]]
    /\ UNCHANGED <<file, lc, cfg, mainPc, mainCache, edits, sq, sres, acc, client, ctx>>

\* a variant of the test that takes an empty set for a missing one
\* (`if not lines_cache`)
is_none_or_empty(cache) == ~cache.loaded \/ cache.lines = {}

\* `if lines_cache is None`
is_none(cache) == ~cache.loaded

\* a variant of the search branch in which a static handler keeps the set it
\* loads in main's lines_cache and later handlers use the set found there
HandlerSearch_shared(c) ==
    /\ handlers[c].pc = "search"
    /\ ~handlers[c].reread
    /\ ~load_lines_raises(file) \/ mainCache.loaded
    /\ LET h == handlers[c]
           set == IF mainCache.loaded THEN mainCache.lines ELSE load_lines(file)
       IN /\ handlers' = [handlers EXCEPT ![c] =
                 [h EXCEPT !.lines_cache = Loaded(set),
                           !.reads = IF mainCache.loaded THEN @ ELSE @ + 1,
                           !.onDisk = on_disk(file, h.query),
                           !.found = search_cached(set, h.query),
                           !.searches = @ + 1,
                           !.pc = "respond"]]
          /\ mainCache' = Loaded(set)
    /\ UNCHANGED <<file, lc, cfg, mainPc, edits, sq, sres, acc, client, ctx>>

\* the search branch: dynamic mode checks the path and goes on to the scan;
\* static mode loads the corpus when none was supplied, then looks the query up
HandlerSearch(c) ==
    /\ handlers[c].pc = "search"
    /\ LET h == handlers[c]
       IN handlers' = [handlers EXCEPT ![c] =
            IF h.reread
            THEN IF search_linecache_raises(file)
                 THEN on_exception(h, "search")
                 ELSE [h EXCEPT !.pc = "scan"]
            ELSE IF is_none(h.lines_cache)
                 THEN IF load_lines_raises(file)
                      THEN on_preload_failure(h)
                      ELSE [h EXCEPT !.lines_cache = Loaded(load_lines(file)),
                                     !.reads = @ + 1,
                                     !.onDisk = on_disk(file, h.query),
                                     !.found = search_cached(load_lines(file), h.query),
                                     !.searches = @ + 1,
                                     !.pc = "respond"]
                 ELSE [h EXCEPT !.found = search_cached(h.lines_cache.lines, h.query),
                                !.searches = @ + 1,
                                !.pc = "respond"]]
    /\ UNCHANGED <<file, lc, cfg, mainPc, mainCache, edits, sq, sres, acc, client, ctx>>

\* search_linecache's loop over linecache.getline
HandlerScan(c) ==
    /\ handlers[c].pc = "scan"
    /\ handlers' = [handlers EXCEPT ![c] =
            [@ EXCEPT !.found = search_linecache(lc, file, handlers[c].query),
                      !.onDisk = on_disk(file, handlers[c].query),
                      !.searches = @ + 1,
                      !.pc = "respond"]]
    /\ lc' = getlines_entry(lc, file)
    /\ UNCHANGED <<file, cfg, mainPc, mainCache, edits, sq, sres, acc, client, ctx>>

\* a variant in which the handler runs on the acceptor's own thread and a
\* failed sendall is not caught: the exception ends the acceptor
HandlerRespond_on_acceptor(c, ok) ==
    /\ handlers[c].pc = "respond"
    /\ LET h == [handlers[c] EXCEPT
                    !.ops = Append(@, Call("sendall", Response(handlers[c].found), ok))]
       IN handlers' = [handlers EXCEPT ![c] =
            IF ok THEN [h EXCEPT !.debugs = @ + 1, !.pc = finally_pc(h)]
            ELSE on_exception(h, "send")]
    /\ mainPc' = IF ok THEN mainPc ELSE "crashed"
    /\ UNCHANGED <<file, lc, cfg, mainCache, edits, sq, sres, acc, client, ctx>>

\* conn.sendall(response) returns, or raises
HandlerRespond(c, ok) ==
    /\ handlers[c].pc = "respond"
    /\ LET h == [handlers[c] EXCEPT
                    !.ops = Append(@, Call("sendall", Response(handlers[c].found), ok))]
       IN handlers' = [handlers EXCEPT ![c] =
            IF ok THEN [h EXCEPT !.debugs = @ + 1, !.pc = finally_pc(h)]
            ELSE on_exception(h, "send")]
    /\ UNCHANGED <<file, lc, cfg, mainPc, mainCache, edits, sq, sres, acc, client, ctx>>

\* the finally clause: the TLS shutdown of a TLS connection, then close;
\* uok / cok: whether unwrap / close returns rather than raises
HandlerFinally(c, uok, cok) ==
    /\ handlers[c].pc = "finally"
    /\ handlers[c].ssl \/ uok
    /\ handlers' = [handlers EXCEPT ![c] = close_step(unwrap_step(@, uok), cok)]
    /\ UNCHANGED <<file, lc, cfg, mainPc, mainCache, edits, sq, sres, acc, client, ctx>>

-----------------------------------------------------------------------------
(* main and the acceptor loop *)

\* the acceptor before main reaches it: no connection in TLS handshake, no
\* failed handshake, no failed startup step
NoAcceptor == [hs |-> 0, failed |-> {}, err |-> "none", exc |-> [class |-> "none", args |-> <<>>]]

\* an exception object: its class and the arguments it was built from
Exception(class, args) == [class |-> class, args |-> args]

\* the call ServerError(*args): __init__(self, operation, reason,
\* details=None) takes two or three arguments, and a call with any other
\* number raises TypeError before a ServerError exists
ServerError(args) ==
    IF Len(args) \in 2..3 THEN Exception("ServerError", args)
    ELSE Exception("TypeError", <<"ServerError.__init__() missing argument">>)

\* what leaves main when a startup step fails: the result of main's own
\* `raise ServerError("...")`, or the exception of the function it called
\* (class "Other": load_config, create_ssl_context), or bind's OSError
raised_at(step) ==
    CASE step = "config" -> {ServerError(<<"Missing required config keys">>),
                             Exception("Other", <<"load_config">>)}
      [] step = "file" -> {ServerError(<<"Search file not found">>)}
      [] step = "preload" -> {ServerError(<<"Could not preload search file">>)}
      [] step = "tls" -> {ServerError(<<"Invalid SSL configuration">>),
                          Exception("Other", <<"create_ssl_context">>)}
      [] OTHER -> {Exception("OSError", <<>>)}

\* a startup step raises: the exception leaves main, the process ends
startup_failure(step) ==
    /\ mainPc' = "failed"
    /\ \E e \in raised_at(step) : acc' = [acc EXCEPT !.err = step, !.exc = e]

\* load_config, then the check that every required key is in cfg; either
\* raises (ok = FALSE)
MainConfig(ok) ==
    /\ mainPc = "config"
    /\ IF ok THEN mainPc' = "start" /\ UNCHANGED acc
       ELSE startup_failure("config")
    /\ UNCHANGED <<file, lc, cfg, mainCache, handlers, edits, sq, sres, client, ctx>>

\* `if not os.path.isfile(search_file_path): raise ServerError(...)`
MainCheckFile ==
    /\ mainPc = "start"
    /\ IF file.exists THEN mainPc' = "preload" /\ UNCHANGED acc
       ELSE startup_failure("file")
    /\ UNCHANGED <<file, lc, cfg, mainCache, handlers, edits, sq, sres, client, ctx>>

\* the static-mode preload; a failing load_lines becomes a ServerError
MainPreload ==
    /\ mainPc = "preload"
    /\ IF main_static(cfg)
       THEN IF load_lines_raises(file)
            THEN startup_failure("preload") /\ UNCHANGED mainCache
            ELSE mainPc' = "listen" /\ mainCache' = Loaded(load_lines(file)) /\ UNCHANGED acc
       ELSE mainPc' = "listen" /\ UNCHANGED <<mainCache, acc>>
    /\ UNCHANGED <<file, lc, cfg, handlers, edits, sq, sres, client, ctx>>

\* a variant of the TLS set-up that goes on without a context
tls_setup_unchecked(ctx_ok) == "accept"

\* `if ssl_ctx is None: raise ServerError(...)`; create_ssl_context may
\* itself raise (ctx_ok = FALSE covers both); otherwise the listening socket
\* is wrapped and main goes on to start_threaded_server
tls_setup(ctx_ok) == IF ctx_ok THEN "accept" ELSE "failed"

\* socket(), bind and listen (bind_ok: none of them raises), then the
\* optional TLS wrap of the listening socket
MainListen(bind_ok, ctx_ok) ==
    /\ mainPc = "listen"
    /\ cfg.SSL_ON \/ ctx_ok
    /\ IF ~bind_ok THEN startup_failure("bind")
       ELSE IF cfg.SSL_ON
            THEN /\ mainPc' = tls_setup(ctx_ok)
                 /\ IF ctx_ok THEN UNCHANGED acc
                    ELSE \E e \in raised_at("tls") :
                            acc' = [acc EXCEPT !.err = "tls", !.exc = e]
            ELSE mainPc' = "accept" /\ UNCHANGED acc
    /\ UNCHANGED <<file, lc, cfg, mainCache, handlers, edits, sq, sres, client, ctx>>

\* the arguments main's lambda gives handle_client: (c, a, cfg, logger), so
\* the parameter lines_cache keeps its default
dispatch_cache(cache) == None

\* a variant in which the acceptor takes the next connection only when every
\* handler it started has returned (thread.join() after thread.start())
NextConn_joined(c) ==
    \A d \in DOMAIN handlers : d < c => (handlers[d].pc = "done" \/ d \in acc.failed)

\* the connections are numbered in the order the acceptor takes them
NextConn(c) == \A d \in DOMAIN handlers : d < c => (handlers[d].pc # "idle" \/ d \in acc.failed)

\* start_threaded_server over a plain listening socket: accept returns the
\* connection, then a thread running the handler is started
Accept(c) ==
    /\ mainPc = "accept"
    /\ ~cfg.SSL_ON
    /\ NextConn(c)
    /\ Enter(c, "main", FALSE, dispatch_cache(mainCache))
    /\ UNCHANGED <<file, lc, cfg, mainPc, mainCache, edits, sq, sres, acc, client, ctx>>

\* sock.accept() raises (OSError): nothing in the loop catches it, so
\* start_threaded_server and main end with the exception
AcceptRaises ==
    /\ mainPc = "accept"
    /\ mainPc' = "crashed"
    /\ UNCHANGED <<file, lc, cfg, mainCache, handlers, edits, sq, sres, acc, client, ctx>>

\* over a TLS listening socket, SSLSocket.accept takes the TCP connection and
\* runs the handshake with it before it returns: the acceptor is inside accept
AcceptConn(c) ==
    /\ mainPc = "accept"
    /\ cfg.SSL_ON
    /\ NextConn(c)
    /\ handlers[c].pc = "idle" /\ c \notin acc.failed
    /\ mainPc' = "handshake"
    /\ acc' = [acc EXCEPT !.hs = c]
    /\ UNCHANGED <<file, lc, cfg, mainCache, handlers, edits, sq, sres, client, ctx>>

\* what a connecting client does in the handshake: presents a certificate
\* the server trusts, presents none, or does not speak TLS
ClientKinds == {"cert", "nocert", "notls"}

\* create_ssl_context: verify_mode is CERT_REQUIRED when SSL_VERIFY_CLIENT is
\* set, else CERT_NONE
handshake_ok(c, kind) == kind = "cert" \/ (kind = "nocert" /\ ~c.SSL_VERIFY_CLIENT)

\* a variant of the failed handshake in which the loop hands the connection
\* to a handler all the same
handshake_failed_dispatch(c) ==
    /\ Enter(c, "main", TRUE, dispatch_cache(mainCache))
    /\ mainPc' = "accept"
    /\ acc' = [acc EXCEPT !.hs = 0, !.failed = @ \cup {c}]

\* the handshake fails: accept raises ssl.SSLError, no thread is started, and
\* the exception ends start_threaded_server
handshake_failed(c) ==
    /\ mainPc' = "crashed"
    /\ acc' = [acc EXCEPT !.hs = 0, !.failed = @ \cup {c}]
    /\ UNCHANGED handlers

\* the handshake inside accept comes to its end: accept returns the
\* ssl.SSLSocket and the handler thread is started, or accept raises
Handshake(c, kind) ==
    /\ mainPc = "handshake"
    /\ acc.hs = c
    /\ IF handshake_ok(cfg, kind)
       THEN /\ Enter(c, "main", TRUE, dispatch_cache(mainCache))
            /\ mainPc' = "accept"
            /\ acc' = [acc EXCEPT !.hs = 0]
       ELSE handshake_failed(c)
    /\ UNCHANGED <<file, lc, cfg, mainCache, edits, sq, sres, client, ctx>>

\* a test calls handle_client directly with a connection and a corpus set
CallHandler(c, ssl, cache) ==
    /\ mainPc = "none"
    /\ Enter(c, "direct", ssl, cache)
    /\ UNCHANGED <<file, lc, cfg, mainPc, mainCache, edits, sq, sres, acc, client, ctx>>

\* the corpus file is rewritten or removed from outside the process
EditFile(f) ==
    /\ edits < MaxEdits
    /\ f # file
    /\ file' = f
    /\ edits' = edits + 1
    /\ UNCHANGED <<lc, cfg, mainPc, mainCache, handlers, sq, sres, acc, client, ctx>>

-----------------------------------------------------------------------------
(* The client: one invocation of query_server (client.py) *)

\* no invocation of query_server
NoClient ==
    [pc |-> "none", use_ssl |-> FALSE, query |-> <<>>, wrapped |-> FALSE, ops |-> <<>>,
     raised |-> "none", response |-> "", outcome |-> "none"]

\* query_server(host, port, query, use_ssl, ...) after `sock = socket.socket(...)`
NewClient(use_ssl, query) ==
    [NoClient EXCEPT !.pc = IF use_ssl THEN "tls" ELSE "connect",
                     !.use_ssl = use_ssl, !.query = query]

\* an exception in the try block: control goes to the finally clause
client_raise(cl, step) == [cl EXCEPT !.raised = step, !.pc = "finally"]

\* `if use_ssl:` create_default_context, load_cert_chain and wrap_socket;
\* when none raises, sock is rebound to the ssl.SSLSocket
ClientTls(ok) ==
    /\ client.pc = "tls"
    /\ client' = IF ok THEN [client EXCEPT !.wrapped = TRUE, !.pc = "connect"]
                 ELSE client_raise(client, "tls")
    /\ UNCHANGED <<file, lc, cfg, mainPc, mainCache, handlers, edits, sq, sres, acc, ctx>>

\* sock.connect((host, port)): the TCP connect and, on an ssl.SSLSocket,
\* the handshake; result: "ok", or the part that raised
ClientConnect(result) ==
    /\ client.pc = "connect"
    /\ result = "handshake" => client.wrapped
    /\ LET cl == [client EXCEPT !.ops = Append(@, Call("connect", "", result = "ok"))]
       IN client' = IF result = "ok" THEN [cl EXCEPT !.pc = "send"]
                    ELSE client_raise(cl, result)
    /\ UNCHANGED <<file, lc, cfg, mainPc, mainCache, handlers, edits, sq, sres, acc, ctx>>

\* sock.sendall(query.encode('utf-8') + b'\n')
ClientSend(ok) ==
    /\ client.pc = "send"
    /\ LET cl == [client EXCEPT
                     !.ops = Append(@, Call("sendall", encode(client.query) \o <<"LF">>, ok))]
       IN client' = IF ok THEN [cl EXCEPT !.pc = "recv"] ELSE client_raise(cl, "send")
    /\ UNCHANGED <<file, lc, cfg, mainPc, mainCache, handlers, edits, sq, sres, acc, ctx>>

\* what recv can return: nothing (the peer closed), one of the server's two
\* responses, or bytes that are not valid UTF-8
ClientReplies == {"", EXISTS, NOT_FOUND, "BAD"}

\* bytes.decode('utf-8') raises UnicodeDecodeError on invalid bytes
client_decode_raises(data) == data = "BAD"

\* data.decode('utf-8').strip() on the replies the model uses
client_decode_strip(data) ==
    CASE data = EXISTS -> "STRING EXISTS"
      [] data = NOT_FOUND -> "STRING NOT FOUND"
      [] OTHER -> ""

\* response = sock.recv(1024).decode('utf-8').strip(); return response
ClientRecv(data, ok) ==
    /\ client.pc = "recv"
    /\ LET cl == [client EXCEPT !.ops = Append(@, Call("recv", "", ok))]
       IN client' = IF ~ok THEN client_raise(cl, "recv")
                    ELSE IF client_decode_raises(data) THEN client_raise(cl, "decode")
                    ELSE [cl EXCEPT !.response = client_decode_strip(data), !.pc = "finally"]
    /\ UNCHANGED <<file, lc, cfg, mainPc, mainCache, handlers, edits, sq, sres, acc, ctx>>

\* a variant that closes the socket at the end of the try body only, and
\* turns an exception into an empty reply
client_finally_on_success(cl) ==
    IF cl.raised = "none"
    THEN [cl EXCEPT !.ops = Append(@, Call("close", IF cl.wrapped THEN "tls" ELSE "plain", TRUE)),
                    !.outcome = "returned", !.pc = "done"]
    ELSE [cl EXCEPT !.outcome = "returned", !.pc = "done"]

\* `finally: sock.close()`, on the socket sock is bound to by then; after it
\* the pending return or exception takes effect
client_finally(cl) ==
    [cl EXCEPT !.ops = Append(@, Call("close", IF cl.wrapped THEN "tls" ELSE "plain", TRUE)),
               !.outcome = IF cl.raised = "none" THEN "returned" ELSE "raised",
               !.pc = "done"]

ClientFinally ==
    /\ client.pc = "finally"
    /\ client' = client_finally(client)
    /\ UNCHANGED <<file, lc, cfg, mainPc, mainCache, handlers, edits, sq, sres, acc, ctx>>

ClientQueries == SeqsUpTo({"a", "b"}, MaxQueryLen)

InitClient ==
    /\ file = NoFile
    /\ lc = NoEntry
    /\ cfg \in {[REREAD_ON_QUERY |-> Bool(FALSE), SSL_ON |-> FALSE]}
    /\ mainPc = "client"
    /\ mainCache = None
    /\ handlers = [c \in {1} |-> Idle]
    /\ edits = 0
    /\ sq = <<>>
    /\ sres = NoResults
    /\ acc = NoAcceptor
    /\ client \in {NewClient(u, q) : u \in BOOLEAN, q \in ClientQueries}
    /\ ctx = Unset

NextClient ==
    \/ \E ok \in BOOLEAN : ClientTls(ok)
    \/ \E result \in {"ok", "connect", "handshake"} : ClientConnect(result)
    \/ \E ok \in BOOLEAN : ClientSend(ok)
    \/ \E data \in ClientReplies, ok \in BOOLEAN : ClientRecv(data, ok)
    \/ ClientFinally

SpecClient == InitClient /\ [][NextClient]_vars

-----------------------------------------------------------------------------
(* The server process: main, the acceptor, its handler threads, the file *)

ServerFiles ==
    {NoFile, File(<<"a", "LF">>), File(<<"a", "LF", "b", "LF">>)}

ServerPayloads == {<<>>, <<"b", "LF">>}

\* load_config: REREAD_ON_QUERY and SSL_ON are read with getboolean
\* and so is SSL_VERIFY_CLIENT; the TLS configurations taken are those that
\* require a client certificate
ServerCfgs ==
    {c \in [REREAD_ON_QUERY : {Bool(TRUE), Bool(FALSE)}, SSL_ON : BOOLEAN,
            SSL_VERIFY_CLIENT : BOOLEAN] : c.SSL_VERIFY_CLIENT = c.SSL_ON}

Init ==
    /\ file \in ServerFiles
    /\ lc = NoEntry
    /\ cfg \in ServerCfgs
    /\ mainPc = "config"
    /\ mainCache = None
    /\ handlers = [c \in 1..MaxConns |-> Idle]
    /\ edits = 0
    /\ sq = <<>>
    /\ sres = NoResults
    /\ acc = NoAcceptor
    /\ client = NoClient
    /\ ctx = Unset

Next ==
    \/ \E ok \in BOOLEAN : MainConfig(ok)
    \/ MainCheckFile
    \/ MainPreload
    \/ \E bind_ok \in BOOLEAN, ctx_ok \in BOOLEAN : MainListen(bind_ok, ctx_ok)
    \/ \E c \in DOMAIN handlers : Accept(c)
    \/ AcceptRaises
    \/ \E c \in DOMAIN handlers : AcceptConn(c)
    \/ \E c \in DOMAIN handlers, kind \in ClientKinds : Handshake(c, kind)
    \/ \E c \in DOMAIN handlers, raw \in ServerPayloads, ok \in BOOLEAN : HandlerRecv(c, raw, ok)
    \/ \E c \in DOMAIN handlers : HandlerSearch(c)
    \/ \E c \in DOMAIN handlers : HandlerScan(c)
    \/ \E c \in DOMAIN handlers, ok \in BOOLEAN : HandlerRespond(c, ok)
    \/ \E c \in DOMAIN handlers, uok \in BOOLEAN, cok \in BOOLEAN : HandlerFinally(c, uok, cok)
    \/ \E f \in ServerFiles : EditFile(f)

Spec == Init /\ [][Next]_vars

-----------------------------------------------------------------------------
(* The unit harness: one direct call of handle_client, as the tests make *)

UnitBytes == {"a", "NUL", "CR", "LF", "BAD"}

UnitPayloads == SeqsUpTo(UnitBytes, MaxPayloadLen)

UnitFiles == {NoFile, File(<<"a", "LF", "LF">>)}

UnitCaches == {None, Loaded({}), Loaded({<<"a">>}), Loaded({<<>>, <<"a", "a">>})}

UnitCfgs ==
    [REREAD_ON_QUERY : {Absent, Bool(TRUE), Bool(FALSE), Str("False"), Str("True")},
     SSL_ON : {FALSE}]

InitUnit ==
    /\ file \in UnitFiles
    /\ lc = NoEntry
    /\ cfg \in UnitCfgs
    /\ mainPc = "none"
    /\ mainCache = None
    /\ handlers = [c \in {1} |-> Idle]
    /\ edits = 0
    /\ sq = <<>>
    /\ sres = NoResults
    /\ acc = NoAcceptor
    /\ client = NoClient
    /\ ctx = Unset

NextUnit ==
    \/ \E c \in DOMAIN handlers, ssl \in BOOLEAN, cache \in UnitCaches : CallHandler(c, ssl, cache)
    \/ \E c \in DOMAIN handlers, raw \in UnitPayloads, ok \in BOOLEAN : HandlerRecv(c, raw, ok)
    \/ \E c \in DOMAIN handlers : HandlerSearch(c)
    \/ \E c \in DOMAIN handlers : HandlerScan(c)
    \/ \E c \in DOMAIN handlers, ok \in BOOLEAN : HandlerRespond(c, ok)
    \/ \E c \in DOMAIN handlers, uok \in BOOLEAN, cok \in BOOLEAN : HandlerFinally(c, uok, cok)

SpecUnit == InitUnit /\ [][NextUnit]_vars

-----------------------------------------------------------------------------
(* The exact-line scenario: handle_client called on the query "ab" (or "abc")
   over a corpus holding only the line "abc", or the lines "ab" and "abc" *)

ScenarioPayload == <<"a", "b", "LF">>

ScenarioPayloads == {<<>>, ScenarioPayload, <<"a", "b", "c", "LF">>}

OnlyAbc == File(<<"a", "b", "c", "LF">>)

AbAndAbc == File(<<"a", "b", "LF", "a", "b", "c", "LF">>)

InitScenario ==
    /\ file \in {OnlyAbc, AbAndAbc}
    /\ lc = NoEntry
    /\ cfg \in [REREAD_ON_QUERY : {Bool(TRUE), Bool(FALSE)}, SSL_ON : {FALSE}]
    /\ mainPc = "none"
    /\ mainCache = None
    /\ handlers = [c \in {1} |-> Idle]
    /\ edits = 0
    /\ sq = <<>>
    /\ sres = NoResults
    /\ acc = NoAcceptor
    /\ client = NoClient
    /\ ctx = Unset

NextScenario ==
    \/ \E c \in DOMAIN handlers, ssl \in BOOLEAN : CallHandler(c, ssl, None)
    \/ \E c \in DOMAIN handlers, raw \in ScenarioPayloads, ok \in BOOLEAN : HandlerRecv(c, raw, ok)
    \/ \E c \in DOMAIN handlers : HandlerSearch(c)
    \/ \E c \in DOMAIN handlers : HandlerScan(c)
    \/ \E c \in DOMAIN handlers, ok \in BOOLEAN : HandlerRespond(c, ok)
    \/ \E c \in DOMAIN handlers, uok \in BOOLEAN, cok \in BOOLEAN : HandlerFinally(c, uok, cok)

SpecScenario == InitScenario /\ [][NextScenario]_vars

-----------------------------------------------------------------------------
(* The wire: query_server and handle_client on the two ends of one plain
   connection; what one end sends is what the other end's recv reads *)

\* the bytes the client has put on the connection: the data of its sendall,
\* once that returned
wire_in(cl) ==
    LET s == SelectSeq(cl.ops, LAMBDA o : o.op = "sendall" /\ o.ok)
    IN IF s = <<>> THEN <<>> ELSE s[1].data

\* the bytes the handler has put on the connection
wire_out(h) ==
    LET s == SelectSeq(h.ops, LAMBDA o : o.op = "sendall" /\ o.ok)
    IN IF s = <<>> THEN "" ELSE s[1].data

\* a variant in which closing with unread bytes ends the stream in order
reset_by_peer_never(cl, h) == FALSE

\* conn.close() while bytes the client sent are still unread (the handler
\* makes one recv of at most MAX_PAYLOAD_SIZE bytes): TCP discards them and
\* answers with a reset, not with an orderly end of stream
reset_by_peer(cl, h) == h.raw # <<>> /\ Len(wire_in(cl)) > Len(h.raw)

\* the client's sock.recv(1024) on a connection the server has reset:
\* ConnectionResetError
ClientRecvReset ==
    /\ client.pc = "recv"
    /\ client' = client_raise([client EXCEPT !.ops = Append(@, Call("recv", "", FALSE))],
                              "reset")
    /\ UNCHANGED <<file, lc, cfg, mainPc, mainCache, handlers, edits, sq, sres, acc, ctx>>

\* a variant of recv that returns everything the peer sent
recv_all(stream, bufsize) == stream

\* conn.recv(bufsize) on a connection whose peer has sent stream in one
\* sendall: the first bufsize bytes of it at most (the empty byte string when
\* the peer closed without sending)
recv(stream, bufsize) ==
    SubSeq(stream, 1, IF Len(stream) < bufsize THEN Len(stream) ELSE bufsize)

WireQueries == SeqsUpTo({"a", "e_acute"}, MaxQueryLen + 1)

\* a corpus of the three lines "a", "aa" and the two-byte character
WireFile == File(<<"a", "LF", "a", "a", "LF", "xC3", "xA9", "LF">>)

InitWire ==
    /\ file \in {NoFile, WireFile}
    /\ lc = NoEntry
    /\ cfg \in [REREAD_ON_QUERY : {Bool(FALSE)}, SSL_ON : {FALSE},
                MAX_PAYLOAD_SIZE : 1..MaxPayloadLen]
    /\ mainPc = "none"
    /\ mainCache = None
    /\ handlers = [c \in {1} |-> Idle]
    /\ edits = 0
    /\ sq = <<>>
    /\ sres = NoResults
    /\ acc = NoAcceptor
    /\ client \in {NewClient(FALSE, q) : q \in WireQueries}
    /\ ctx = Unset

NextWire ==
    \/ \E result \in {"ok", "connect"} : ClientConnect(result)
    \/ \E ok \in BOOLEAN : ClientSend(ok)
    \/ /\ client.pc \in {"send", "recv", "finally", "done"}
       /\ client.raised # "connect"
       /\ CallHandler(1, FALSE, dispatch_cache(mainCache))
    \/ /\ client.pc \in {"recv", "finally", "done"}
       /\ \E ok \in BOOLEAN :
            HandlerRecv(1, recv(wire_in(client), cfg.MAX_PAYLOAD_SIZE), ok)
    \/ HandlerSearch(1)
    \/ \E ok \in BOOLEAN : HandlerRespond(1, ok)
    \/ \E cok \in BOOLEAN : HandlerFinally(1, TRUE, cok)
    \/ /\ handlers[1].pc \in {"finally", "done"}
       /\ \E ok \in BOOLEAN :
            /\ (reset_by_peer(client, handlers[1]) /\ wire_out(handlers[1]) = "") => ~ok
            /\ ClientRecv(wire_out(handlers[1]), ok)
    \/ /\ handlers[1].pc \in {"finally", "done"}
       /\ reset_by_peer(client, handlers[1])
       /\ ClientRecvReset
    \/ ClientFinally

SpecWire == InitWire /\ [][NextWire]_vars

-----------------------------------------------------------------------------
(* search_grep called on one file and one query, on a machine with or without
   a grep executable *)

GrepFiles == {NoFile} \cup {File(bs) : bs \in SeqsUpTo({"a", "LF", "["}, MaxFileLen)}

GrepQueries == SeqsUpTo({"a", "[", "NUL"}, MaxQueryLen)

\* search_grep(path, query) is called and returns or raises
CallGrep ==
    /\ mainPc = "grep"
    /\ sres.grep = "none"
    /\ sres' = [sres EXCEPT !.grep = search_grep_outcome(sres.installed, file, sq)]
    /\ UNCHANGED <<file, lc, cfg, mainPc, mainCache, handlers, edits, sq, acc, client, ctx>>

\* sres.installed: whether a grep executable is on the PATH
InitGrep ==
    /\ file \in GrepFiles
    /\ lc = NoEntry
    /\ cfg \in {[REREAD_ON_QUERY |-> Bool(TRUE), SSL_ON |-> FALSE]}
    /\ mainPc = "grep"
    /\ mainCache = None
    /\ handlers = [c \in {1} |-> Idle]
    /\ edits = 0
    /\ sq \in GrepQueries
    /\ sres \in [grep : {"none"}, installed : BOOLEAN]
    /\ acc = NoAcceptor
    /\ client = NoClient
    /\ ctx = Unset

NextGrep == CallGrep

SpecGrep == InitGrep /\ [][NextGrep]_vars

-----------------------------------------------------------------------------
(* create_ssl_context called on the four values of the configuration *)

TlsPaths == {Absent, Str(""), Str("server.pem"), Str("missing.pem")}

TlsCaFiles == {Absent, Str(""), Str("ca.pem"), Str("missing.pem")}

TlsFlags == {Bool(TRUE), Bool(FALSE)}

\* ssl_ctx = create_ssl_context(cfg['CERTFILE'], cfg['KEYFILE'],
\*                              cfg['SSL_VERIFY_CLIENT'], cfg['CAFILE'])
CreateContext ==
    /\ mainPc = "tls"
    /\ ctx = Unset
    /\ ctx' = create_ssl_context(cfg.CERTFILE, cfg.KEYFILE, cfg.SSL_VERIFY_CLIENT, cfg.CAFILE)
    /\ UNCHANGED <<file, lc, cfg, mainPc, mainCache, handlers, edits, sq, sres, acc, client>>

InitTls ==
    /\ file = NoFile
    /\ lc = NoEntry
    /\ cfg \in [REREAD_ON_QUERY : {Bool(FALSE)}, SSL_ON : {TRUE},
                CERTFILE : TlsPaths, KEYFILE : TlsPaths,
                SSL_VERIFY_CLIENT : TlsFlags, CAFILE : TlsCaFiles]
    /\ mainPc = "tls"
    /\ mainCache = None
    /\ handlers = [c \in {1} |-> Idle]
    /\ edits = 0
    /\ sq = <<>>
    /\ sres = NoResults
    /\ acc = NoAcceptor
    /\ client = NoClient
    /\ ctx = Unset

NextTls == CreateContext

SpecTls == InitTls /\ [][NextTls]_vars

-----------------------------------------------------------------------------
(* The search harness: the strategies applied to one file and one query *)

SearchBytes == {"a", "LF", "CR", "BAD"}

SearchChars == {"a", "LF", "CR"}

\* files and queries with a character that is special in a regular expression
MetaFiles == {File(<<"[", "LF">>), File(<<"a", "[", "LF">>)}

MetaQueries == {<<"[">>, <<"a", "[">>}

SearchFiles == {File(bs) : bs \in SeqsUpTo(SearchBytes, MaxFileLen)} \cup MetaFiles

SearchQueries == SeqsUpTo(SearchChars, MaxQueryLen) \cup MetaQueries

Result(b) == IF b THEN "True" ELSE "False"

\* search_cached(load_lines(path), query)
ApplyCached ==
    /\ mainPc = "search"
    /\ sres.cached = "none"
    /\ sres' = [sres EXCEPT !.cached = Result(search_cached(load_lines(file), sq))]
    /\ UNCHANGED <<file, lc, cfg, mainPc, mainCache, handlers, edits, sq, acc, client, ctx>>

\* search_dynamic(path, query)
ApplyDynamic ==
    /\ mainPc = "search"
    /\ sres.dynamic = "none"
    /\ sres' = [sres EXCEPT !.dynamic = Result(search_dynamic(file, sq))]
    /\ UNCHANGED <<file, lc, cfg, mainPc, mainCache, handlers, edits, sq, acc, client, ctx>>

\* search_linecache(path, query)
ApplyLinecache ==
    /\ mainPc = "search"
    /\ sres.linecache = "none"
    /\ sres' = [sres EXCEPT !.linecache = Result(search_linecache(lc, file, sq))]
    /\ lc' = getlines_entry(lc, file)
    /\ UNCHANGED <<file, cfg, mainPc, mainCache, handlers, edits, sq, acc, client, ctx>>

\* search_regex(path, query)
ApplyRegex ==
    /\ mainPc = "search"
    /\ sres.regex = "none"
    /\ sres' = [sres EXCEPT !.regex =
            IF search_regex_raises(file) THEN "raises" ELSE Result(search_regex(file, sq))]
    /\ UNCHANGED <<file, lc, cfg, mainPc, mainCache, handlers, edits, sq, acc, client, ctx>>

\* search_mmap(path, query)
ApplyMmap ==
    /\ mainPc = "search"
    /\ sres.mmap = "none"
    /\ sres' = [sres EXCEPT !.mmap =
            IF search_mmap_raises(file) THEN "raises" ELSE Result(search_mmap(file, sq))]
    /\ UNCHANGED <<file, lc, cfg, mainPc, mainCache, handlers, edits, sq, acc, client, ctx>>

\* search_grep(path, query)
ApplyGrep ==
    /\ mainPc = "search"
    /\ sres.grep = "none"
    /\ sres' = [sres EXCEPT !.grep =
            IF search_grep_raises(file) THEN "raises" ELSE Result(search_grep(file, sq))]
    /\ UNCHANGED <<file, lc, cfg, mainPc, mainCache, handlers, edits, sq, acc, client, ctx>>

InitSearch ==
    /\ file \in SearchFiles
    /\ lc = NoEntry
    /\ cfg \in {[REREAD_ON_QUERY |-> Bool(TRUE), SSL_ON |-> FALSE]}
    /\ mainPc = "search"
    /\ mainCache = None
    /\ handlers = [c \in {1} |-> Idle]
    /\ edits = 0
    /\ sq \in SearchQueries
    /\ sres = NoResults
    /\ acc = NoAcceptor
    /\ client = NoClient
    /\ ctx = Unset

NextSearch ==
    \/ ApplyCached
    \/ ApplyDynamic
    \/ ApplyLinecache
    \/ ApplyRegex
    \/ ApplyMmap
    \/ ApplyGrep

SpecSearch == InitSearch /\ [][NextSearch]_vars

-----------------------------------------------------------------------------
(* load_lines called on one path, as test_files_satisfy_load_lines does *)

LoadFiles == {NoFile} \cup SearchFiles

\* load_lines(path) is called: it returns the set, or raises
CallLoadLines ==
    /\ mainPc = "load"
    /\ sres.load = "none"
    /\ IF load_lines_raises(file)
       THEN sres' = [sres EXCEPT !.load = "FileNotFoundError"] /\ UNCHANGED mainCache
       ELSE sres' = [sres EXCEPT !.load = "returned"] /\ mainCache' = Loaded(load_lines(file))
    /\ UNCHANGED <<file, lc, cfg, mainPc, handlers, edits, sq, acc, client, ctx>>

InitLoad ==
    /\ file \in LoadFiles
    /\ lc = NoEntry
    /\ cfg \in {[REREAD_ON_QUERY |-> Bool(FALSE), SSL_ON |-> FALSE]}
    /\ mainPc = "load"
    /\ mainCache = None
    /\ handlers = [c \in {1} |-> Idle]
    /\ edits = 0
    /\ sq = <<>>
    /\ sres = [load |-> "none"]
    /\ acc = NoAcceptor
    /\ client = NoClient
    /\ ctx = Unset

NextLoad == CallLoadLines

SpecLoad == InitLoad /\ [][NextLoad]_vars

-----------------------------------------------------------------------------
(* search_linecache's loop, one pass of the `while True` at a time, on one
   existing file and one query *)

ScanFiles == {File(bs) : bs \in SeqsUpTo({"a", "LF", "CR"}, MaxFileLen)}

ScanQueries == SeqsUpTo({"a", "LF"}, MaxQueryLen)

\* one pass: get line sres.line_number; at end of file return False, on a
\* line equal to the query (both without trailing "\r\n") return True,
\* else go on to the next line number
ScanPass ==
    /\ mainPc = "scan"
    /\ sres.linecache = "none"
    /\ LET raw_line == getline(getlines(lc, file), sres.line_number)
       IN sres' = IF scan_eof(raw_line)
                  THEN [sres EXCEPT !.linecache = "False"]
                  ELSE IF rstrip(raw_line, {"CR", "LF"}) = rstrip(sq, {"CR", "LF"})
                       THEN [sres EXCEPT !.linecache = "True"]
                       ELSE [sres EXCEPT !.line_number = @ + 1]
    /\ lc' = getlines_entry(lc, file)
    /\ UNCHANGED <<file, cfg, mainPc, mainCache, handlers, edits, sq, acc, client, ctx>>

\* search_linecache(path, query) is called on an existing file: the check
\* that the path exists passes, line_number = 1
ScanCall(f, query) ==
    /\ mainPc = "call"
    /\ file' = f
    /\ sq' = query
    /\ mainPc' = "scan"
    /\ sres' = [linecache |-> "none", line_number |-> 1]
    /\ UNCHANGED <<lc, cfg, mainCache, handlers, edits, acc, client, ctx>>

InitScan ==
    /\ file = File(<<>>)
    /\ lc = NoEntry
    /\ cfg \in {[REREAD_ON_QUERY |-> Bool(TRUE), SSL_ON |-> FALSE]}
    /\ mainPc = "call"
    /\ mainCache = None
    /\ handlers = [c \in {1} |-> Idle]
    /\ edits = 0
    /\ sq = <<>>
    /\ sres = [linecache |-> "none", line_number |-> 1]
    /\ acc = NoAcceptor
    /\ client = NoClient
    /\ ctx = Unset

NextScan ==
    \/ \E f \in ScanFiles, query \in ScanQueries : ScanCall(f, query)
    \/ ScanPass

SpecScan == InitScan /\ [][NextScan]_vars

-----------------------------------------------------------------------------
(* The mode choice: handle_client called directly under each value that
   cfg["REREAD_ON_QUERY"] can hold *)

ModeStrings ==
    {"1", "true", "True", "TRUE", "tRuE", "yes", "YES", "Yes", "on", "ON", "On",
     "", "0", "2", "false", "False", "FALSE", "no", "NO", "off", "OFF", "y", "t"}

ModeCfgs ==
    [REREAD_ON_QUERY : {Absent, Bool(TRUE), Bool(FALSE)} \cup {Str(x) : x \in ModeStrings},
     SSL_ON : {FALSE}]

ModePayloads == {<<>>, <<"a", "LF">>, <<"b">>}

ModeCaches == {None, Loaded({<<"a">>})}

InitMode ==
    /\ file \in {NoFile, File(<<"a", "LF">>)}
    /\ lc = NoEntry
    /\ cfg \in ModeCfgs
    /\ mainPc = "none"
    /\ mainCache = None
    /\ handlers = [c \in {1} |-> Idle]
    /\ edits = 0
    /\ sq = <<>>
    /\ sres = NoResults
    /\ acc = NoAcceptor
    /\ client = NoClient
    /\ ctx = Unset

NextMode ==
    \/ \E c \in DOMAIN handlers, cache \in ModeCaches : CallHandler(c, FALSE, cache)
    \/ \E c \in DOMAIN handlers, raw \in ModePayloads : HandlerRecv(c, raw, TRUE)
    \/ \E c \in DOMAIN handlers : HandlerSearch(c)
    \/ \E c \in DOMAIN handlers : HandlerScan(c)
    \/ \E c \in DOMAIN handlers : HandlerRespond(c, TRUE)
    \/ \E c \in DOMAIN handlers : HandlerFinally(c, TRUE, TRUE)

SpecMode == InitMode /\ [][NextMode]_vars

-----------------------------------------------------------------------------
(* Properties *)

Started == {c \in DOMAIN handlers : handlers[c].pc # "idle"}

\* the calls of one kind made on a handler's connection
Calls(h, op) == SelectSeq(h.ops, LAMBDA o : o.op = op)

\* the responses that sendall delivered (calls that returned)
Sent(h) == SelectSeq(h.ops, LAMBDA o : o.op = "sendall" /\ o.ok)

\* the payload without its trailing NUL/CR/LF bytes, as text: the bytes up
\* to the last one that is none of the three, invalid bytes left out
StrippedText(raw) ==
    LET keep == {k \in 1..Len(raw) : raw[k] \notin {"NUL", "CR", "LF"}}
        n == IF keep = {} THEN 0 ELSE CHOOSE k \in keep : \A j \in keep : j <= k
    IN SelectSeq(SubSeq(raw, 1, n), LAMBDA b : b # "BAD")

\* C1: on every path of handle_client at most one sendall is made on the
\* connection, and what it writes is "STRING EXISTS\n" or "STRING NOT FOUND\n"
C1_OnlyTwoResponses ==
    \A c \in Started :
        /\ Len(Calls(handlers[c], "sendall")) <= 1
        /\ \A o \in Range(handlers[c].ops) :
              o.data # "" => o.op = "sendall" /\ o.data \in {"STRING EXISTS\n", "STRING NOT FOUND\n"}
        /\ \A o \in Range(Calls(handlers[c], "sendall")) :
              o.data \in {"STRING EXISTS\n", "STRING NOT FOUND\n"}

C1_Witness ==
    \E c \in Started :
        /\ handlers[c].pc = "done"
        /\ Sent(handlers[c]) = <<Call("sendall", "STRING EXISTS\n", TRUE)>>

\* C2: static mode, corpus set supplied: the response to a non-empty payload
\* is "STRING EXISTS\n" exactly when the payload, stripped of trailing
\* NUL/CR/LF and decoded, is in the supplied set, else "STRING NOT FOUND\n";
\* and a handler that met no exception has sent it once it is done
C2_StaticSuppliedAnswer ==
    \A c \in Started :
        LET h == handlers[c]
        IN (h.supplied /\ ~reread_flag(cfg) /\ h.raw # <<>>) =>
              /\ \A o \in Range(Calls(h, "sendall")) :
                    o.data = IF StrippedText(h.raw) \in h.lines_cache.lines
                             THEN "STRING EXISTS\n" ELSE "STRING NOT FOUND\n"
              /\ (h.pc = "done" /\ h.raised = "none") => Len(Sent(h)) = 1

C2_Witness ==
    \E c \in Started :
        /\ handlers[c].supplied /\ ~reread_flag(cfg)
        /\ handlers[c].raw = <<"a", "CR", "LF">>
        /\ handlers[c].pc = "done"
        /\ Sent(handlers[c]) = <<Call("sendall", "STRING EXISTS\n", TRUE)>>

\* whether the handler has taken its search step and found (or not) the
\* query; a handler only gets past the search by way of a strategy
Answered(h) == h.searches > 0

\* C3: in dynamic mode every answer is the one the on-disk content at the
\* time of the scan gives: a query for a line added by an edit is answered
\* NOT FOUND before the edit and EXISTS after it, whatever was served before
C3_DynamicSeesCurrentFile ==
    \A c \in Started :
        (handlers[c].via = "main" /\ handlers[c].reread /\ Answered(handlers[c]))
            => handlers[c].found = handlers[c].onDisk

\* C4: in static mode the corpus file is read once, by main at startup, and
\* no handler dispatched by main reads it; each searches main's set
C4_StaticReadOnce ==
    \A c \in Started :
        (handlers[c].via = "main" /\ ~handlers[c].reread) =>
            /\ handlers[c].reads = 0
            /\ Answered(handlers[c]) => handlers[c].lines_cache = mainCache

\* C5: in static mode every answer is the one the startup snapshot gives,
\* whatever happened to the corpus file after startup
C5_StaticAnswersFromSnapshot ==
    \A c \in Started :
        (handlers[c].via = "main" /\ ~handlers[c].reread /\ Answered(handlers[c]))
            => handlers[c].found = (handlers[c].query \in mainCache.lines)

\* the first receive returned zero bytes
EmptyRead(h) ==
    /\ h.ops # <<>>
    /\ h.ops[1] = Call("recv", "", TRUE)
    /\ h.raw = <<>>

\* C6: after an empty first receive the handler sends nothing, searches
\* nothing, loads nothing, and closes the connection exactly once
C6_EmptyReadClosesSilently ==
    \A c \in Started :
        EmptyRead(handlers[c]) =>
            /\ Calls(handlers[c], "sendall") = <<>>
            /\ handlers[c].searches = 0
            /\ handlers[c].reads = 0
            /\ handlers[c].pc \in {"finally", "done"}
            /\ Len(Calls(handlers[c], "close")) = IF handlers[c].pc = "done" THEN 1 ELSE 0

C6_Witness ==
    \E c \in Started :
        /\ EmptyRead(handlers[c])
        /\ handlers[c].pc = "done"
        /\ ~handlers[c].lines_cache.loaded

\* C7: an exception raised by the receive, the corpus load, the search or
\* the send is caught in handle_client: no response is delivered on that
\* connection, the handler goes on to its closing step and returns normally
C7_ExceptionsCaught ==
    \A c \in Started :
        handlers[c].raised # "none" =>
            /\ Sent(handlers[c]) = <<>>
            /\ ~handlers[c].propagated
            /\ handlers[c].pc \in {"finally", "done"}

C7_Witness ==
    \E c \in Started :
        /\ handlers[c].raised = "send"
        /\ handlers[c].pc = "done"

\* C8 as claimed: a connection whose handler met an exception gets exactly
\* one error-severity log record
C8_ExactlyOneErrorRecord ==
    \A c \in Started :
        (handlers[c].pc = "done" /\ handlers[c].raised # "none") => handlers[c].errors = 1

\* C8, amended: exactly one error record for an exception in the receive,
\* the search or the send, and exactly two when the lazy corpus load fails
\* (the load's own record, then the handler's)
C8_ErrorRecordsPerFailure ==
    \A c \in Started :
        handlers[c].raised # "none" =>
            handlers[c].errors = IF handlers[c].raised = "load" THEN 2 ELSE 1

C8_Witness ==
    \E c \in Started :
        /\ handlers[c].pc = "done"
        /\ handlers[c].raised = "load"
        /\ handlers[c].errors = 2

\* C9: on every path close is called exactly once, as the last call made
\* on the connection: never before the handler's closing step, and a
\* handler that has returned has made it, after everything else
C9_CloseOnceAndLast ==
    \A c \in Started :
        LET h == handlers[c]
        IN /\ \A i \in 1..Len(h.ops) : h.ops[i].op = "close" => i = Len(h.ops)
           /\ h.pc = "done" <=> (h.ops # <<>> /\ h.ops[Len(h.ops)].op = "close")
           /\ ~h.propagated

C9_Witness ==
    \E c \in Started :
        /\ handlers[c].pc = "done"
        /\ handlers[c].raised = "recv"
        /\ \E i \in 1..Len(handlers[c].ops) : handlers[c].ops[i] = Call("unwrap", "", FALSE)
        /\ handlers[c].ops[Len(handlers[c].ops)].op = "close"

\* C10: on one snapshot of the corpus file, search_cached over load_lines,
\* search_dynamic and search_linecache give the same answer to every query
C10_StrategiesAgree ==
    (sres.cached # "none" /\ sres.dynamic # "none" /\ sres.linecache # "none")
        => (sres.cached = sres.dynamic /\ sres.dynamic = sres.linecache)

\* C11: whenever search_dynamic answers True for a file and a query,
\* search_mmap on the same file and query answers True as well
C11_ScanImpliesMmap ==
    (sres.dynamic = "True" /\ sres.mmap # "none") => sres.mmap = "True"

\* the strategies that are to match complete lines only
LineStrategies == {"cached", "dynamic", "regex", "grep", "linecache"}

\* C12: every strategy other than search_mmap answers False to a query that
\* is not a complete line of the corpus file, a proper substring of a line
\* included
C12_NonLineIsFalse ==
    sq \notin load_lines(file) =>
        \A s \in LineStrategies : sres[s] \in {"none", "False"}

\* C13: each of the five file-based strategies answers True to a query that
\* is a complete line of the corpus file, whatever its characters
C13_FullLineIsTrue ==
    sq \in load_lines(file) =>
        \A s \in {"dynamic", "regex", "mmap", "grep", "linecache"} :
            sres[s] \in {"none", "True"}

\* C14: the query "ab" is matched by the line "ab" and not by the line
\* "abc": over the corpus holding only "abc" the lookup in the loaded set
\* (search_cached), the scan of the file (search_dynamic) and search_linecache
\* all say no and the server sends "STRING NOT FOUND\n"; over the corpus
\* holding "ab" and "abc" they say yes and it sends "STRING EXISTS\n"
C14_ExactLineNotSubstring ==
    \A c \in Started :
        LET h == handlers[c]
        IN (h.query = <<"a", "b">> /\ Answered(h)) =>
              /\ file = OnlyAbc =>
                    /\ ~h.found /\ ~h.onDisk
                    /\ \A o \in Range(Calls(h, "sendall")) : o.data = NOT_FOUND
              /\ file = AbAndAbc =>
                    /\ h.found /\ h.onDisk
                    /\ \A o \in Range(Calls(h, "sendall")) : o.data = EXISTS

C14_Witness ==
    \E c \in Started :
        /\ file = OnlyAbc
        /\ handlers[c].raw = ScenarioPayload
        /\ handlers[c].reread
        /\ handlers[c].pc = "done"
        /\ Sent(handlers[c]) = <<Call("sendall", NOT_FOUND, TRUE)>>

\* C15: with TLS and required client verification, a connection whose
\* handshake failed is never handed to handle_client: its handler never
\* starts, so nothing is received from it, searched or sent to it
C15_FailedHandshakeNeverHandled ==
    (cfg.SSL_ON /\ cfg.SSL_VERIFY_CLIENT) => \A c \in acc.failed : handlers[c] = Idle

C15_Witness ==
    /\ cfg.SSL_ON /\ cfg.SSL_VERIFY_CLIENT
    /\ acc.failed = {2}
    /\ handlers[1].pc = "done"
    /\ Len(Sent(handlers[1])) = 1

\* the acceptor loop is running: main is in start_threaded_server
Accepting == mainPc \in {"accept", "handshake"}

\* C16: the acceptor loop runs indefinitely: whatever happens to a
\* connection attempt, a running acceptor is still running afterwards
C16_AcceptorKeepsRunning == [][Accepting => Accepting']_vars

\* C17: the acceptor never waits on one connection: while it runs and a
\* further client is there to connect, that client can be accepted without
\* any step of the connections taken so far
C17_AcceptorNeverWaitsOnOneConnection ==
    (Accepting /\ \E d \in DOMAIN handlers :
                     handlers[d].pc = "idle" /\ d \notin acc.failed /\ d # acc.hs)
        => ENABLED (\E d \in DOMAIN handlers : Accept(d) \/ AcceptConn(d))

\* the step in which handler c meets an exception
Failing(c) == handlers[c].raised = "none" /\ handlers'[c].raised # "none"

\* C18: a failure in one handler leaves every other handler, the corpus, the
\* line cache and the acceptor as they were; and in static mode the response
\* on a connection is the one its own query gets from the corpus it read
C18_HandlerFailureIsolated ==
    /\ [][\A c \in DOMAIN handlers : Failing(c) =>
              /\ \A d \in DOMAIN handlers \ {c} : handlers'[d] = handlers[d]
              /\ UNCHANGED <<file, lc, cfg, mainPc, mainCache, acc>>]_vars
    /\ [](\A d \in Started :
              (~handlers[d].reread /\ Sent(handlers[d]) # <<>>) =>
                  Sent(handlers[d])[1].data = Response(handlers[d].onDisk))

C18_Witness ==
    /\ mainPc = "accept"
    /\ handlers[1].pc = "done" /\ handlers[1].raised = "send"
    /\ handlers[2].pc = "done" /\ Sent(handlers[2]) = <<Call("sendall", EXISTS, TRUE)>>

\* C19: when a startup step of main fails (configuration, corpus file check,
\* preload, bind/listen, TLS context), main ends with the error: it never
\* reaches the acceptor loop and no connection is handed to a handler
C19_StartupFailureIsFatal ==
    /\ acc.err # "none" =>
          /\ mainPc = "failed"
          /\ acc.hs = 0
          /\ \A c \in DOMAIN handlers : handlers[c] = Idle
    /\ mainPc = "failed" => acc.err # "none"

C19_Witness ==
    /\ acc.err = "tls"
    /\ mainPc = "failed"
    /\ edits = 1

\* C20: query_server closes its socket exactly once on every path, as the
\* last thing it does: after a reply, and when the TLS set-up, the connect,
\* the handshake, the send or the receive raises; an exception raised on the
\* way reaches the caller, and no reply is returned in its place
C20_ClientClosesOnce ==
    /\ Len(SelectSeq(client.ops, LAMBDA o : o.op = "close")) = IF client.pc = "done" THEN 1 ELSE 0
    /\ client.pc = "done" =>
          /\ client.ops[Len(client.ops)] =
                 Call("close", IF client.wrapped THEN "tls" ELSE "plain", TRUE)
          /\ client.outcome = IF client.raised = "none" THEN "returned" ELSE "raised"
          /\ client.raised # "none" => client.response = ""

C20_Witness ==
    /\ client.pc = "done"
    /\ client.raised = "handshake"
    /\ client.outcome = "raised"
    /\ client.ops = <<Call("connect", "", FALSE), Call("close", "tls", TRUE)>>

\* C21: decoding never fails a request: whatever bytes a non-empty payload
\* holds, the query is the payload without its trailing NUL/CR/LF and without
\* its invalid bytes, the handler goes on to the search, and unless the
\* corpus load, the search or the send raises, it sends the one response
\* the search result calls for
C21_DecodeNeverFails ==
    \A c \in Started :
        LET h == handlers[c]
        IN h.raw # <<>> =>
              /\ h.query = StrippedText(h.raw)
              /\ "BAD" \notin Range(h.query)
              /\ h.raised \in {"none", "load", "search", "send"}
              /\ (h.pc \in {"respond", "finally", "done"} /\ h.raised \in {"none", "send"})
                    => h.searches = 1
              /\ (h.pc = "done" /\ h.raised = "none")
                    => Sent(h) = <<Call("sendall", Response(h.found), TRUE)>>

C21_Witness ==
    \E c \in Started :
        /\ handlers[c].raw = <<"BAD", "a", "BAD">>
        /\ handlers[c].query = <<"a">>
        /\ handlers[c].pc = "done"
        /\ Sent(handlers[c]) = <<Call("sendall", EXISTS, TRUE)>>

\* C22: round trip: the bytes the client sends for a query of printable text
\* without NUL, CR or LF (its UTF-8 encoding followed by a newline) are turned
\* by the handler's strip-and-decode step back into exactly that query, and a
\* handler that received those bytes searches for exactly that query
C22_RoundTrip ==
    /\ wire_in(client) # <<>> => strip_and_decode(wire_in(client)) = client.query
    /\ \A c \in Started :
           (handlers[c].raw # <<>> /\ handlers[c].raw = wire_in(client))
               => handlers[c].query = client.query

C22_Witness ==
    /\ client.query = <<"e_acute">>
    /\ wire_in(client) = <<"xC3", "xA9", "LF">>
    /\ handlers[1].pc = "done"
    /\ handlers[1].raw = wire_in(client)
    /\ handlers[1].query = <<"e_acute">>

\* C23: a connection gets exactly one receive, of at most MAX_PAYLOAD_SIZE
\* bytes: what it returns is the front of what the client sent, a query whose
\* encoding is exactly MAX_PAYLOAD_SIZE bytes is searched in full, and of a
\* longer payload only the first MAX_PAYLOAD_SIZE bytes make the query (no
\* second receive reads the rest)
C23_OneBoundedReceive ==
    \A c \in Started :
        LET h == handlers[c]
            sent == wire_in(client)
            max == cfg.MAX_PAYLOAD_SIZE
        IN /\ Len(Calls(h, "recv")) = (IF h.pc = "recv" THEN 0 ELSE 1)
           /\ Len(h.raw) <= max
           /\ h.raw # <<>> =>
                 /\ h.raw = SubSeq(sent, 1, Len(h.raw))
                 /\ Len(sent) >= max => Len(h.raw) = max
                 /\ h.query = strip_and_decode(h.raw)
                 /\ Len(encode(client.query)) = max => h.query = client.query
                 /\ h.searches = 1 => h.found = search_cached(h.lines_cache.lines, h.query)

C23_Witness ==
    /\ client.query = <<"a", "a", "a">>
    /\ cfg.MAX_PAYLOAD_SIZE = 2
    /\ handlers[1].pc = "done"
    /\ handlers[1].raw = <<"a", "a">>
    /\ handlers[1].query = <<"a", "a">>
    /\ handlers[1].found
    /\ Len(Calls(handlers[1], "recv")) = 1

\* what a handler made of its query: the response it chose, "error" when the
\* corpus could not be read, "pending" before that is decided
SearchOutcome(h) ==
    IF h.raised \in {"load", "search"} THEN "error"
    ELSE IF h.searches = 1 THEN Response(h.found)
    ELSE "pending"

\* C24: idempotence: in static and in dynamic mode, two connections that
\* carry the same query while the corpus file has not been modified get the
\* same response (or both get none, when the file cannot be read)
C24_Idempotent ==
    edits = 0 =>
        \A c1 \in Started, c2 \in Started :
            (/\ handlers[c1].raw # <<>>
             /\ handlers[c1].raw = handlers[c2].raw
             /\ SearchOutcome(handlers[c1]) # "pending"
             /\ SearchOutcome(handlers[c2]) # "pending")
                => SearchOutcome(handlers[c1]) = SearchOutcome(handlers[c2])

C24_Witness ==
    /\ edits = 0
    /\ lc.cached
    /\ \A c \in {1, 2} :
          /\ handlers[c].pc = "done"
          /\ handlers[c].reread
          /\ handlers[c].raw = <<"b", "LF">>
          /\ Sent(handlers[c]) = <<Call("sendall", EXISTS, TRUE)>>

\* C25: search_grep tells a missing grep executable from a non-match: when
\* the tool cannot be spawned the call raises RuntimeError and never returns
\* False, and it returns False exactly when the tool ran and exited with a
\* non-zero status
C25_SpawnFailureIsNotFalse ==
    (mainPc = "grep" /\ sres.grep # "none") =>
        /\ (file.exists /\ check_output(sres.installed, file.bytes, sq) = "FileNotFoundError")
              => sres.grep = "RuntimeError"
        /\ ~sres.installed => sres.grep # "False"
        /\ sres.grep = "False"
              <=> (/\ file.exists
                   /\ sres.installed
                   /\ "NUL" \notin Range(sq)
                   /\ grep_status(file.bytes, sq) # 0)

C25_Witness ==
    /\ mainPc = "grep"
    /\ ~sres.installed
    /\ file = File(<<"a", "LF">>)
    /\ sq = <<"a", "a">>
    /\ sres.grep = "RuntimeError"

\* C26: create_ssl_context returns None exactly when the certificate path or
\* the key path is absent or empty; a context it returns requires a client
\* certificate when the verify_client flag is true and asks for none when it
\* is false; with loadable files it does return a context
C26_ContextOrNone ==
    (mainPc = "tls" /\ ctx # Unset) =>
        /\ ctx = NoContext
              <=> (cfg.CERTFILE \in {Absent, Str("")} \/ cfg.KEYFILE \in {Absent, Str("")})
        /\ ctx.kind = "context" =>
              /\ cfg.SSL_VERIFY_CLIENT = Bool(TRUE) => ctx.verify_mode = "CERT_REQUIRED"
              /\ cfg.SSL_VERIFY_CLIENT = Bool(FALSE) => ctx.verify_mode = "CERT_NONE"
        /\ (/\ cfg.CERTFILE = Str("server.pem")
            /\ cfg.KEYFILE = Str("server.pem")
            /\ cfg.CAFILE # Str("missing.pem"))
              => ctx.kind = "context"

C26_Witness ==
    /\ mainPc = "tls"
    /\ cfg.CERTFILE = Str("server.pem")
    /\ cfg.KEYFILE = Str("server.pem")
    /\ cfg.SSL_VERIFY_CLIENT = Bool(TRUE)
    /\ ctx = Context("CERT_REQUIRED")

\* the pieces of the decoded text between its line terminators, the empty
\* piece after a final terminator left out
LinePieces(bs) ==
    LET ps == split_lf(universal_newlines(decode_ignore(bs)))
    IN IF ps[Len(ps)] = <<>> THEN SubSeq(ps, 1, Len(ps) - 1) ELSE ps

\* C27: load_lines returns the set of the file's lines, each without its
\* terminator: a line occurring twice is one element, a last line without
\* terminator is an element; for a path that is no regular file it raises
\* FileNotFoundError and returns nothing
C27_LoadLinesIsTheSetOfLines ==
    (mainPc = "load" /\ sres.load # "none") =>
        /\ sres.load = "FileNotFoundError" <=> ~file.exists
        /\ sres.load = "FileNotFoundError" => ~mainCache.loaded
        /\ sres.load = "returned" =>
              /\ mainCache.loaded
              /\ mainCache.lines = Range(LinePieces(file.bytes))
              /\ \A l \in mainCache.lines : "LF" \notin Range(l)
              /\ Cardinality(mainCache.lines) <= Len(LinePieces(file.bytes))

C27_Witness ==
    /\ mainPc = "load"
    /\ file = File(<<"a", "LF", "a">>)
    /\ sres.load = "returned"
    /\ mainCache = Loaded({<<"a">>})

\* the place of a call in the handler's order of steps
StepRank(op) ==
    CASE op = "recv" -> 1
      [] op = "sendall" -> 3
      [] op = "unwrap" -> 4
      [] op = "close" -> 5

\* C28: the steps of one connection are strictly ordered and none is
\* repeated: the calls on the connection come in the order recv, sendall,
\* unwrap, close, each at most once; the search runs once at most, only
\* after the receive has returned and before anything is sent or closed, and
\* a response is sent only after the search has completed
C28_StepsStrictlyOrdered ==
    \A c \in Started :
        LET h == handlers[c]
        IN /\ \A i \in 1..Len(h.ops), j \in 1..Len(h.ops) :
                 i < j => StepRank(h.ops[i].op) < StepRank(h.ops[j].op)
           /\ h.searches <= 1
           /\ h.pc \in {"search", "scan"} => (h.ops = <<Call("recv", "", TRUE)>> /\ h.searches = 0)
           /\ h.searches = 1 => (h.ops # <<>> /\ h.ops[1] = Call("recv", "", TRUE))
           /\ Calls(h, "sendall") # <<>> => (h.searches = 1 /\ h.pc \in {"finally", "done"})
           /\ h.pc = "done" => h.ops[Len(h.ops)].op = "close"

C28_Witness ==
    \E c \in Started :
        /\ handlers[c].pc = "done"
        /\ handlers[c].searches = 1
        /\ handlers[c].ops = <<Call("recv", "", TRUE), Call("sendall", NOT_FOUND, TRUE),
                               Call("unwrap", "", TRUE), Call("close", "", TRUE)>>

\* C29: in the closing step a TLS connection gets one unwrap, immediately
\* before close; an unwrap that fails is logged at debug level, raises
\* nothing and adds no error record, and close is still called; a plaintext
\* connection is closed without any unwrap
C29_TlsShutdownBeforeClose ==
    \A c \in Started :
        LET h == handlers[c]
            n == Len(h.ops)
        IN /\ ~h.ssl => Calls(h, "unwrap") = <<>>
           /\ Calls(h, "unwrap") # <<>> => h.pc = "done"
           /\ (h.pc = "done" /\ h.ssl) =>
                 /\ Len(Calls(h, "unwrap")) = 1
                 /\ n >= 2 /\ h.ops[n - 1].op = "unwrap" /\ h.ops[n].op = "close"
                 /\ ~h.propagated
                 /\ h.debugs = (IF Sent(h) # <<>> THEN 1 ELSE 0)
                               + (IF h.ops[n - 1].ok THEN 0 ELSE 1)
                 /\ h.raised = "none" => h.errors = 0
           /\ (h.pc = "done" /\ ~h.ssl) => h.ops[n].op = "close"

C29_Witness ==
    \E c \in Started :
        /\ handlers[c].ssl
        /\ handlers[c].pc = "done"
        /\ handlers[c].raised = "none"
        /\ handlers[c].errors = 0
        /\ handlers[c].debugs = 2
        /\ handlers[c].ops = <<Call("recv", "", TRUE), Call("sendall", EXISTS, TRUE),
                               Call("unwrap", "", FALSE), Call("close", "", TRUE)>>

\* C30: in dynamic mode a query handled while the corpus file does not exist
\* fails that connection only: the handler logs one error, sends nothing and
\* closes; no other handler, the acceptor, the file or the caches change in
\* that step, and the acceptor goes on accepting the next connection
C30_MissingFileFailsOneConnection ==
    /\ [][\A c \in DOMAIN handlers :
              (/\ handlers[c].pc = "search"
               /\ handlers[c].reread
               /\ ~file.exists
               /\ handlers'[c] # handlers[c])
                  => /\ handlers'[c] = [handlers[c] EXCEPT !.raised = "search",
                                                           !.errors = @ + 1,
                                                           !.pc = "finally"]
                     /\ \A d \in DOMAIN handlers \ {c} : handlers'[d] = handlers[d]
                     /\ UNCHANGED <<file, lc, cfg, mainPc, mainCache, acc>>]_vars
    /\ [](\A c \in Started :
              handlers[c].raised = "search" =>
                  /\ handlers[c].reread
                  /\ Calls(handlers[c], "sendall") = <<>>
                  /\ handlers[c].errors = 1
                  /\ ~handlers[c].propagated
                  /\ handlers[c].pc \in {"finally", "done"}
                  /\ handlers[c].pc = "done" =>
                        handlers[c].ops[Len(handlers[c].ops)].op = "close"
                  /\ \A d \in DOMAIN handlers :
                        (/\ mainPc = "accept"
                         /\ ~cfg.SSL_ON
                         /\ handlers[d].pc = "idle"
                         /\ NextConn(d)) => ENABLED Accept(d))

C30_Witness ==
    /\ mainPc = "accept"
    /\ ~file.exists
    /\ handlers[1].raised = "search"
    /\ handlers[1].pc = "done"
    /\ handlers[1].ops = <<Call("recv", "", TRUE), Call("close", "", TRUE)>>
    /\ handlers[2].pc = "done"
    /\ handlers[2].via = "main"

\* C31: a static-mode handler called without a corpus set loads the file
\* itself, once, before it searches, and keeps the set in its own invocation:
\* the step changes neither main's set nor any other handler, every such
\* handler has made its own read, and its answer is the one its query gets
\* from the file as it was when the handler read it
C31_LazyLoadIsPerHandler ==
    /\ [][\A c \in DOMAIN handlers :
              handlers'[c].reads # handlers[c].reads
                  => /\ handlers[c].reads = 0 /\ handlers'[c].reads = 1
                     /\ handlers[c].searches = 0 /\ handlers'[c].searches = 1
                     /\ handlers'[c].lines_cache = Loaded(load_lines(file))
                     /\ \A d \in DOMAIN handlers \ {c} : handlers'[d] = handlers[d]
                     /\ UNCHANGED <<file, lc, cfg, mainPc, mainCache, acc>>]_vars
    /\ [](\A c \in Started :
              LET h == handlers[c]
              IN (~h.reread /\ ~h.supplied /\ h.searches = 1)
                    => /\ h.reads = 1
                       /\ h.lines_cache.loaded
                       /\ h.found = h.onDisk
                       /\ h.found = search_cached(h.lines_cache.lines, h.query))

C31_Witness ==
    /\ mainCache.loaded
    /\ \A c \in {1, 2} :
          /\ handlers[c].pc = "done"
          /\ ~handlers[c].reread
          /\ handlers[c].reads = 1
          /\ handlers[c].raw = <<"b", "LF">>
    /\ handlers[1].lines_cache # handlers[2].lines_cache
    /\ Sent(handlers[1]) # Sent(handlers[2])
    /\ Sent(handlers[1]) # <<>> /\ Sent(handlers[2]) # <<>>

\* connection d is the next one to arrive: every earlier one was accepted
\* into a handler or lost in its handshake
Arriving(d) ==
    /\ handlers[d].pc = "idle"
    /\ d \notin acc.failed
    /\ \A e \in DOMAIN handlers : e < d => (handlers[e].pc # "idle" \/ e \in acc.failed)

\* C32: the acceptor starts one handler invocation per accepted connection,
\* on a thread of its own, and goes straight back to accepting: a step that
\* starts a handler starts exactly one, for the connection just accepted, and
\* leaves the acceptor in its loop; no step of a handler moves the acceptor;
\* and however many handlers are still running, the next connection can be
\* accepted
C32_OneThreadPerConnection ==
    /\ [][\A c \in DOMAIN handlers :
              (handlers[c].pc = "idle" /\ handlers'[c].pc # "idle")
                  => /\ mainPc \in {"accept", "handshake"}
                     /\ mainPc = "handshake" => acc.hs = c
                     /\ Arriving(c)
                     /\ handlers'[c] = [Idle EXCEPT !.pc = "recv", !.via = "main",
                                                    !.ssl = cfg.SSL_ON]
                     /\ \A d \in DOMAIN handlers \ {c} : handlers'[d] = handlers[d]
                     /\ mainPc' = "accept"]_vars
    /\ [][\A c \in DOMAIN handlers :
              (handlers[c].pc # "idle" /\ handlers'[c] # handlers[c])
                  => UNCHANGED <<mainPc, acc>>]_vars
    /\ [](\A d \in DOMAIN handlers :
              (mainPc = "accept" /\ Arriving(d))
                  => IF cfg.SSL_ON THEN ENABLED AcceptConn(d) ELSE ENABLED Accept(d))

C32_Witness ==
    /\ mainPc = "accept"
    /\ handlers[1].pc = "search"
    /\ handlers[2].pc = "recv"
    /\ handlers[1].via = "main" /\ handlers[2].via = "main"

\* C33: search_regex takes the query literally: on every file of valid UTF-8
\* text and every query, a bracket or a line terminator in the query
\* included, it returns what search_dynamic returns
C33_RegexIsLiteral ==
    (/\ mainPc = "search"
     /\ "BAD" \notin Range(file.bytes)
     /\ sres.regex # "none"
     /\ sres.dynamic # "none")
        => /\ sres.regex \in {"True", "False"}
           /\ sres.regex = sres.dynamic

C33_Witness ==
    /\ mainPc = "search"
    /\ file = File(<<"a", "[", "LF">>)
    /\ sq = <<"a", "[">>
    /\ sres.regex = "True"
    /\ sres.dynamic = "True"

\* the lines search_linecache compares: those of the file as linecache holds
\* them, without trailing "\r\n"
ScanLine(n) == rstrip(getlines(lc, file)[n], {"CR", "LF"})

\* C34: on an existing file search_linecache terminates: every pass of the
\* loop either returns or moves to the next line number, the line number
\* never goes past the line after the last, so the passes are at most one
\* more than the lines; it returns True at the first line equal to the query and
\* False only when it has passed the last line, so a blank line before the
\* end does not stop it (line and query are compared without trailing "\r\n")
C34_ScanTerminates ==
    /\ [][mainPc = "scan" =>
              /\ sres'.line_number \in {sres.line_number, sres.line_number + 1}
              /\ (sres'.line_number = sres.line_number <=> sres'.linecache # "none")
              /\ Len(getlines(lc', file')) = Len(getlines(lc, file))]_vars
    /\ [](mainPc = "scan" =>
            LET n == sres.line_number
                q == rstrip(sq, {"CR", "LF"})
                len == Len(getlines(lc, file))
            IN /\ n \in 1..(len + 1)
               /\ \A k \in 1..(n - 1) : ScanLine(k) # q
               /\ sres.linecache = "True" => (n <= len /\ ScanLine(n) = q)
               /\ sres.linecache = "False" => n = len + 1)

C34_Witness ==
    /\ mainPc = "scan"
    /\ file = File(<<"LF", "a", "LF">>)
    /\ sq = <<"a">>
    /\ sres = [linecache |-> "True", line_number |-> 2]

\* C35: no step of a running handler changes the configuration record, and
\* a handler that was given a corpus set holds the same set, with the same
\* contents, after every step, whether it answers, reads nothing or fails;
\* no step writes to main's set either
C35_HandlerLeavesCfgAndCorpus ==
    [][\A c \in DOMAIN handlers :
          handlers[c].pc \notin {"idle", "done"} =>
              /\ cfg' = cfg
              /\ mainCache' = mainCache
              /\ handlers[c].supplied =>
                    /\ handlers'[c].supplied
                    /\ handlers'[c].lines_cache = handlers[c].lines_cache]_vars

C35_Witness ==
    \E c \in Started :
        /\ handlers[c].pc = "done"
        /\ handlers[c].supplied
        /\ handlers[c].lines_cache = Loaded({<<"a">>})
        /\ handlers[c].raised = "send"
        /\ handlers[c].searches = 1
        /\ cfg.REREAD_ON_QUERY = Str("False")

\* C36: a static-mode handler that was given the empty set never reads the
\* corpus file and never fails in a load; its search finds nothing, and the
\* only response it sends is "STRING NOT FOUND\n", which it does send when
\* nothing raises
C36_EmptySetCountsAsLoaded ==
    \A c \in Started :
        LET h == handlers[c]
        IN (h.supplied /\ h.lines_cache = Loaded({}) /\ h.raw # <<>> /\ ~h.reread)
              => /\ h.reads = 0
                 /\ h.raised # "load"
                 /\ h.pc # "scan"
                 /\ h.searches = 1 => ~h.found
                 /\ \A i \in 1..Len(Sent(h)) : Sent(h)[i].data = NOT_FOUND
                 /\ (h.pc \in {"finally", "done"} /\ h.raised = "none")
                        => Len(Sent(h)) = 1

C36_Witness ==
    \E c \in Started :
        /\ handlers[c].pc = "done"
        /\ handlers[c].supplied
        /\ handlers[c].lines_cache = Loaded({})
        /\ ~handlers[c].reread
        /\ handlers[c].raw = <<"a", "LF">>
        /\ file = File(<<"a", "LF", "LF">>)
        /\ handlers[c].reads = 0
        /\ Len(Sent(handlers[c])) = 1

\* the payload is not empty and holds only NUL, CR and LF bytes
OnlyTerminators(raw) ==
    /\ raw # <<>>
    /\ \A i \in 1..Len(raw) : raw[i] \in {"NUL", "CR", "LF"}

\* the corpus the handler searches has an empty line
HasEmptyLine(h) ==
    IF h.reread
    THEN \E n \in 1..Len(getlines(lc, file)) : ScanLine(n) = <<>>
    ELSE <<>> \in h.lines_cache.lines

\* C37: a payload of only NUL, CR and LF bytes is not an empty read: the
\* handler goes on to search for the empty string, and unless something
\* raises it sends one response, "STRING EXISTS\n" exactly when the corpus
\* has an empty line
C37_TerminatorsOnlyPayloadIsSearched ==
    \A c \in Started :
        LET h == handlers[c]
        IN OnlyTerminators(h.raw)
              => /\ h.query = <<>>
                 /\ h.pc # "recv"
                 /\ (h.pc \in {"finally", "done"} /\ h.raised = "none")
                        => /\ h.searches = 1
                           /\ Len(Sent(h)) = 1
                 /\ h.searches = 1 => h.found = HasEmptyLine(h)
                 /\ \A i \in 1..Len(Sent(h)) :
                        Sent(h)[i].data = Response(HasEmptyLine(h))

C37_Witness ==
    \E c \in Started :
        /\ handlers[c].pc = "done"
        /\ handlers[c].raw = <<"LF">>
        /\ handlers[c].reread
        /\ file = File(<<"a", "LF", "LF">>)
        /\ Len(Sent(handlers[c])) = 1
        /\ Sent(handlers[c])[1].data = EXISTS

\* the values of REREAD_ON_QUERY under which the handler is to re-read
DynamicValues ==
    {Bool(TRUE)} \cup
    {Str(x) : x \in {"1", "true", "True", "TRUE", "tRuE", "yes", "YES", "Yes",
                     "on", "ON", "On"}}

\* C38: a handler that received a query works in dynamic mode exactly when
\* REREAD_ON_QUERY is boolean true or a string that is "1", "true", "yes" or
\* "on" in some casing; in dynamic mode it scans the file through linecache
\* and never loads a set, and under every other value (missing, false, any
\* other string) it looks the query up in a set and never scans
C38_DynamicModeSelection ==
    \A c \in Started :
        LET h == handlers[c]
            dynamic == cfg.REREAD_ON_QUERY \in DynamicValues
        IN h.raw # <<>> =>
              /\ h.reread <=> dynamic
              /\ h.pc = "scan" => dynamic
              /\ dynamic => h.reads = 0
              /\ h.searches = 1 =>
                    IF dynamic
                    THEN lc # NoEntry /\ h.found = search_linecache(lc, file, h.query)
                    ELSE /\ lc = NoEntry
                         /\ h.lines_cache.loaded
                         /\ h.found = search_cached(h.lines_cache.lines, h.query)

C38_Witness ==
    \E c \in Started :
        /\ cfg.REREAD_ON_QUERY = Str("False")
        /\ handlers[c].pc = "done"
        /\ handlers[c].raw = <<"a", "LF">>
        /\ ~handlers[c].reread
        /\ ~handlers[c].supplied
        /\ handlers[c].reads = 1
        /\ handlers[c].found

\* the handler has left the try block without a response on the wire, and
\* the client's query_server has ended after a recv that the network itself
\* did not fail
SilentClose ==
    /\ handlers[1].pc \in {"finally", "done"}
    /\ Sent(handlers[1]) = <<>>
    /\ client.pc = "done"
    /\ \E i \in 1..Len(client.ops) : client.ops[i].op = "recv"
    /\ client.raised # "recv"

C39_StartupFailuresAreServerErrors ==
    (acc.err \in {"config", "file", "preload", "tls"} /\ acc.exc.class # "Other")
        => /\ acc.exc.class = "ServerError"
           /\ acc.exc.args # <<>>

====
